---- MODULE Spec2Model ----
(***************************************************************************)
(* Statement matching and scoring engine of the recruitment matcher:       *)
(* matcher_model/models/vector_store/vector_db.py (VectorDB),              *)
(* matcher_model/processors/statement_processor.py (StatementProcessor),   *)
(* matcher_model/processors/score_processor.py (ScoreProcessor) and        *)
(* matcher_model/matcher.py (Matcher).                                     *)
(*                                                                         *)
(* Numbers.  Vectors are two-dimensional and written in polar form: a      *)
(* direction on the hexagon (multiples of 60 degrees) and a magnitude, so  *)
(* that L2 normalisation and inner products are exact; inner products are  *)
(* kept doubled (2*cos).  Reranker scores are fixed-point thousandths.     *)
(* Aggregated scores and coverages are exact rationals <<num, den>>.       *)
(***************************************************************************)
EXTENDS Integers, Sequences, FiniteSets, TLC

VARIABLES
  vector_db,  \* the VectorDB instance in use (StatementProcessor.vector_db)
  disk,       \* per path, the index file and the metadata file; for a batch
              \* script, the output files written so far
  saved,      \* per path, the instance as it was at its last completed save
  last_call,  \* the last call made: arguments, exception raised, value returned
  run,        \* the inputs of the current run and how far it has got; for a
              \* batch script, the state of its main thread and worker pool
  out         \* what Matcher.match and Matcher.match_new returned in this run;
              \* for a batch script, its counters and end-of-run summary

vars == <<vector_db, disk, saved, last_call, run, out>>

(***************************************************************************)
(* Bounds of the model.                                                    *)
(***************************************************************************)
MaxIndexSize == 2
MaxTopK == 3
MaxMustHave == 2
MaxAggMustHave == 3

\* the largest counts calculate_statement_coverage_multiplier is called with
MaxMatched == 6

MaxTotal == 10

\* the largest config['search']['top_n_resumes'] of the ranking runs
MaxTopN == 2

\* the largest batch_size of the cross-encoder loop called on its own
MaxBatchSize == 3

(***************************************************************************)
(* Generic helpers.                                                        *)
(***************************************************************************)
None == "None"

Range(s) == {s[i] : i \in 1..Len(s)}

SeqsUpTo(S, n) == UNION {[1..m -> S] : m \in 0..n}

Min(a, b) == IF a < b THEN a ELSE b

Max(a, b) == IF a < b THEN b ELSE a

(***************************************************************************)
(* Vectors: [dir, mag] is the vector mag * (cos(60 dir), sin(60 dir)).     *)
(***************************************************************************)
Cos2 == <<2, 1, -1, -2, -1, 1>>

NumDirs == Len(Cos2)

Vec == [dir : 0..(NumDirs - 1), mag : 0..2]

\* faiss.normalize_L2 (vector_db.py:34): every non-zero row is scaled to
\* unit length; a zero row is left as it is.
normalize_L2(v) == IF v.mag = 0 THEN v ELSE [v EXCEPT !.mag = 1]

\* faiss.normalize_L2 on the rows of a matrix
NormalizeRows(vectors) == [j \in 1..Len(vectors) |-> normalize_L2(vectors[j])]

\* the similarity IndexFlatIP computes: the inner product (doubled).
InnerProduct(a, b) == a.mag * b.mag * Cos2[((a.dir - b.dir) % NumDirs) + 1]

(***************************************************************************)
(* Resumes (data_models.py) and the statements prepared from them.         *)
(***************************************************************************)
YearsText(y) == IF y = 0 THEN "0.0" ELSE IF y = 2 THEN "2.0" ELSE "9.0"

ResumeA ==
  [ id |-> "engineering/a.json", category |-> "engineering",
    statements |->
      [ personal_info |-> <<"Ann">>,
        education |-> <<>>, certifications |-> <<>>, personality_traits |-> <<>>,
        skills |-> << [ name |-> "python", years |-> 2, level |-> "senior",
                        description |-> "backend", evidence |-> <<"built api">> ] >> ] ]

ResumeB ==
  [ id |-> "finance/b.json", category |-> "finance",
    statements |->
      [ personal_info |-> <<"Bob">>,
        education |-> <<"bsc finance">>, certifications |-> <<>>,
        personality_traits |-> <<>>, skills |-> <<>> ] ]

\* a resume of ten statements
ResumeC ==
  [ id |-> "engineering/c.json", category |-> "engineering",
    statements |->
      [ personal_info |-> <<"Cyd">>,
        education |-> <<"msc", "bsc", "school", "course">>,
        certifications |-> <<"aws", "pmp">>,
        personality_traits |-> <<"curious">>,
        skills |-> << [ name |-> "sql", years |-> 0, level |-> "junior",
                        description |-> "reports",
                        evidence |-> <<"wrote queries", "tuned indexes">> ] >> ] ]

\* a resume without statements
ResumeE ==
  [ id |-> "legal/e.json", category |-> "legal",
    statements |->
      [ personal_info |-> <<"Eve">>,
        education |-> <<>>, certifications |-> <<>>, personality_traits |-> <<>>,
        skills |-> <<>> ] ]

\* a second resume of one statement
ResumeD ==
  [ id |-> "finance/d.json", category |-> "finance",
    statements |->
      [ personal_info |-> <<"Dan">>,
        education |-> <<>>, certifications |-> <<"cfa">>,
        personality_traits |-> <<>>, skills |-> <<>> ] ]

ResumePool == {ResumeA, ResumeB}

\* a faulty variant of the skill loop: the evidence statements are emitted
\* before the skill statement
SkillStatements_evidence_first(skill, resume_id) ==
  [j \in 1..Len(skill.evidence) |->
     [text |-> skill.name \o " - " \o skill.evidence[j],
      type |-> "skill_evidence", resume_id |-> resume_id]]
  \o << [text |-> skill.name \o ": " \o skill.description, type |-> "skill",
         resume_id |-> resume_id] >>

\* the statements emitted for one skill (statement_processor.py:70-89)
SkillStatements(skill, resume_id) ==
  LET base == skill.name \o ": " \o skill.description
      skill_text == IF skill.years > 0
                    THEN base \o " (" \o YearsText(skill.years) \o " years experience)"
                    ELSE base
  IN  << [text |-> skill_text, type |-> "skill", resume_id |-> resume_id] >>
      \o [j \in 1..Len(skill.evidence) |->
            [text |-> skill.name \o " - " \o skill.evidence[j],
             type |-> "skill_evidence", resume_id |-> resume_id]]

RECURSIVE AllSkillStatements(_, _)
AllSkillStatements(skills, resume_id) ==
  IF skills = <<>> THEN <<>>
  ELSE SkillStatements(Head(skills), resume_id)
       \o AllSkillStatements(Tail(skills), resume_id)

FlatStatements(items, stmt_type, resume_id) ==
  [j \in 1..Len(items) |-> [text |-> items[j], type |-> stmt_type, resume_id |-> resume_id]]

\* StatementProcessor.prepare_statements
prepare_statements(resume_statements, resume_id) ==
  AllSkillStatements(resume_statements.skills, resume_id)
  \o FlatStatements(resume_statements.education, "education", resume_id)
  \o FlatStatements(resume_statements.certifications, "certifications", resume_id)
  \o FlatStatements(resume_statements.personality_traits, "personality_traits", resume_id)

StatementPool == UNION {Range(prepare_statements(r.statements, r.id)) : r \in ResumePool}

(***************************************************************************)
(* VectorDB.  vector_db.index is the row buffer of the FAISS flat          *)
(* inner-product index, vector_db.metadata the parallel payload list.      *)
(* Positions are 0-based in the code and 1-based in the sequences here.    *)
(***************************************************************************)
NoFile == [exists |-> FALSE, data |-> <<>>]

File(data) == [exists |-> TRUE, data |-> data]

NotSaved == [present |-> FALSE, db |-> [index |-> <<>>, metadata |-> <<>>]]

SavedAs(db) == [present |-> TRUE, db |-> db]

StorePath == "data/vector_store/resume_statements"

BarePath == "resume_statements"

Paths == {StorePath, BarePath}

\* os.path.dirname(path)
dirname(path) == IF path = StorePath THEN "data/vector_store" ELSE ""

EmptyDB == [index |-> <<>>, metadata |-> <<>>]

Call(op, args, raised, ret) == [op |-> op, args |-> args, raised |-> raised, ret |-> ret]

\* a faulty variant of VectorDB.add: the length check left out
add_unchecked(db, vectors, metadata) ==
  [raised |-> None,
   db |-> [index |-> db.index \o NormalizeRows(vectors),
           metadata |-> db.metadata \o metadata]]

\* VectorDB.add: the instance after the call and the exception raised.
add(db, vectors, metadata) ==
  IF Len(vectors) # Len(metadata)
  THEN [raised |-> "ValueError", db |-> db]
  ELSE [raised |-> None,
        db |-> [index |-> db.index \o NormalizeRows(vectors),
                metadata |-> db.metadata \o metadata]]

\* a faulty variant of VectorDB.save: a stale payload list is written, the last payload lost
save_dropping_last(files, db, path) ==
  [raised |-> None,
   files |-> [files EXCEPT ![path] =
                [index_file |-> File(db.index),
                 metadata_file |-> File(SubSeq(db.metadata, 1, Len(db.metadata) - 1))]]]

\* VectorDB.save: os.makedirs(dirname) raises FileNotFoundError for an empty
\* dirname; otherwise the index file and the metadata file are written.
save(files, db, path) ==
  IF dirname(path) = ""
  THEN [raised |-> "FileNotFoundError", files |-> files]
  ELSE [raised |-> None,
        files |-> [files EXCEPT ![path] =
                     [index_file |-> File(db.index),
                      metadata_file |-> File(db.metadata)]]]

\* VectorDB.load: faiss.read_index raises when the index file is missing,
\* open() raises when the metadata file is missing; the instance returned
\* holds the two files' contents.
load(files, path) ==
  IF ~files[path].index_file.exists
  THEN [raised |-> "RuntimeError", db |-> EmptyDB]
  ELSE IF ~files[path].metadata_file.exists
  THEN [raised |-> "FileNotFoundError", db |-> EmptyDB]
  ELSE [raised |-> None,
        db |-> [index |-> files[path].index_file.data,
                metadata |-> files[path].metadata_file.data]]

\* the positions of the rows, best first: similarity descending, the lower
\* position first among equal similarities (IndexFlatIP scans the rows in
\* order and is deterministic).
RECURSIVE RankPositions(_, _, _)
RankPositions(xb, query, left) ==
  IF left = {} THEN <<>>
  ELSE LET sim(p) == InnerProduct(query, xb[p + 1])
           best == CHOOSE p \in left :
                     \A o \in left : sim(p) > sim(o) \/ (sim(p) = sim(o) /\ p <= o)
       IN  <<best>> \o RankPositions(xb, query, left \ {best})

\* VectorDB.search -> index.search(query_vector, k): the labels row.  FAISS
\* always returns k labels; when the index holds fewer than k rows the
\* missing ones are -1.  (The distances row is only logged.)
search(xb, query, k) ==
  LET ranked == RankPositions(xb, query, 0..(Len(xb) - 1))
  IN  [j \in 1..k |-> IF j <= Len(xb) THEN ranked[j] ELSE -1]

\* Python list indexing metadata[i]: a negative i counts from the end.
PyInRange(list, i) == -Len(list) <= i /\ i < Len(list)

PyGet(list, i) == IF i >= 0 THEN list[i + 1] ELSE list[Len(list) + i + 1]

IndexError == "IndexError"

\* VectorDB.get_metadata: [self.metadata[i] for i in indices]
get_metadata(metadata, indices) ==
  IF \A j \in 1..Len(indices) : PyInRange(metadata, indices[j])
  THEN [raised |-> None, ret |-> [j \in 1..Len(indices) |-> PyGet(metadata, indices[j])]]
  ELSE [raised |-> IndexError, ret |-> <<>>]

(***************************************************************************)
(* Exact rationals <<numerator, denominator>> in lowest terms, for the     *)
(* real-valued means, coverages and scores of ScoreProcessor.              *)
(***************************************************************************)
Abs(n) == IF n < 0 THEN -n ELSE n

RECURSIVE GCD(_, _)
GCD(a, b) == IF b = 0 THEN a ELSE GCD(b, a % b)

Rat(n, d) ==
  LET g == GCD(Abs(n), Abs(d))
      sgn == IF d < 0 THEN -1 ELSE 1
  IN  <<(sgn * n) \div g, (sgn * d) \div g>>

RZero == <<0, 1>>

RAdd(a, b) == Rat(a[1] * b[2] + b[1] * a[2], a[2] * b[2])

RMul(a, b) == Rat(a[1] * b[1], a[2] * b[2])

RLess(a, b) == a[1] * b[2] < b[1] * a[2]

RMax(a, b) == IF RLess(a, b) THEN b ELSE a

RECURSIVE SeqSum(_)
SeqSum(s) == IF s = <<>> THEN 0 ELSE Head(s) + SeqSum(Tail(s))

\* scores are kept in thousandths: 0.9 is 900
Thousand == 1000

\* np.mean of a non-empty list of scores, as a real number
Mean(scores) == Rat(SeqSum(scores), Len(scores) * Thousand)

(***************************************************************************)
(* ScoreProcessor (score_processor.py).                                    *)
(***************************************************************************)
\* config['weights'] (matcher.py:111-114, matcher_usage.py:29-32)
Weights == [must_have |-> <<7, 10>>, nice_to_have |-> <<3, 10>>]

\* "if m['matches'].score > 0.5" (score_processor.py:62-63), in thousandths
RelevanceThreshold == 500

\* "if must_have_coverage < 0.3" (score_processor.py:80)
MinMustHaveCoverage == <<3, 10>>

\* "max(0.2, ratio)" (score_processor.py:21)
MinStatementCoverage == <<1, 5>>

\* a faulty variant of the multiplier: the floor left out
calculate_statement_coverage_multiplier_nofloor(matched_statements, total_statements) ==
  IF total_statements = 0 THEN RZero
  ELSE Rat(matched_statements, total_statements)

\* ScoreProcessor.calculate_statement_coverage_multiplier
calculate_statement_coverage_multiplier(matched_statements, total_statements) ==
  IF total_statements = 0 THEN RZero
  ELSE RMax(MinStatementCoverage, Rat(matched_statements, total_statements))

RECURSIVE CountSkillStatements(_)
CountSkillStatements(skills) ==
  IF skills = <<>> THEN 0
  ELSE 1 + Len(Head(skills).evidence) + CountSkillStatements(Tail(skills))

\* a faulty variant of the count: the evidence items are not counted
get_total_statements_no_evidence(resume_statements) ==
  Len(resume_statements.skills)
  + Len(resume_statements.education)
  + Len(resume_statements.certifications)
  + Len(resume_statements.personality_traits)

\* ScoreProcessor.get_total_statements
get_total_statements(resume_statements) ==
  CountSkillStatements(resume_statements.skills)
  + Len(resume_statements.education)
  + Len(resume_statements.certifications)
  + Len(resume_statements.personality_traits)

\* a faulty variant: an empty requirement list counts as fully covered
calculate_requirement_coverage_multiplier_full(matched_requirements, total_requirements) ==
  IF total_requirements = 0 THEN <<1, 1>>
  ELSE Rat(matched_requirements, total_requirements)

\* ScoreProcessor.calculate_requirement_coverage_multiplier
calculate_requirement_coverage_multiplier(matched_requirements, total_requirements) ==
  IF total_requirements = 0 THEN RZero
  ELSE Rat(matched_requirements, total_requirements)

\* [m['matches'].score for m in matches[...]]
MatchScores(entries) == [j \in 1..Len(entries) |-> entries[j].matches.score]

AboveThreshold(score) == score > RelevanceThreshold

\* the resume of the list with the given id (resume_statements_count lookup)
ResumeById(resumes, resume_id) ==
  resumes[CHOOSE j \in 1..Len(resumes) :
            /\ resumes[j].id = resume_id
            /\ \A l \in (j + 1)..Len(resumes) : resumes[l].id # resume_id]

\* a faulty variant without the gate: every resume is scored by the formula
GateFails_never(must_have_coverage) == FALSE

\* "if must_have_coverage < 0.3"
GateFails(must_have_coverage) == RLess(must_have_coverage, MinMustHaveCoverage)

\* a faulty variant of the weighted component: the coverage factor left out
WeightedComponent_nocoverage(scores, coverage, weight) ==
  IF Len(scores) > 0 THEN RMul(Mean(scores), weight) ELSE RZero

\* np.mean(scores) * coverage * weight, or 0 for an empty list
\* (score_processor.py:90-98)
WeightedComponent(scores, coverage, weight) ==
  IF Len(scores) > 0 THEN RMul(RMul(Mean(scores), coverage), weight) ELSE RZero

\* the body of the loop of aggregate_resume_scores for one resume
ScoreOneResume(job_description, matches, total_statements) ==
  LET must_have_scores == MatchScores(matches.must_have)
      nice_to_have_scores == MatchScores(matches.nice_to_have)
      must_have_coverage_list == SelectSeq(must_have_scores, AboveThreshold)
      nice_to_have_coverage_list == SelectSeq(nice_to_have_scores, AboveThreshold)
      must_have_coverage ==
        calculate_requirement_coverage_multiplier(
          Len(must_have_coverage_list), Len(job_description.must_have_requirements))
      nice_to_have_coverage ==
        calculate_requirement_coverage_multiplier(
          Len(nice_to_have_coverage_list),
          Max(Len(job_description.nice_to_have_requirements), 1))
      total_matches == Len(must_have_coverage_list) + Len(nice_to_have_coverage_list)
      statement_coverage_multiplier ==
        calculate_statement_coverage_multiplier(total_matches, total_statements)
      must_have_score ==
        WeightedComponent(must_have_scores, must_have_coverage, Weights.must_have)
      nice_to_have_score ==
        WeightedComponent(nice_to_have_scores, nice_to_have_coverage, Weights.nice_to_have)
  IN  IF GateFails(must_have_coverage)
      THEN [id |-> matches.id, score |-> RZero, must_have_coverage |-> RZero,
            nice_to_have_coverage |-> RZero, statement_coverage |-> RZero]
      ELSE [id |-> matches.id,
            score |-> RMul(RAdd(must_have_score, nice_to_have_score),
                           statement_coverage_multiplier),
            must_have_coverage |-> must_have_coverage,
            nice_to_have_coverage |-> nice_to_have_coverage,
            statement_coverage |-> statement_coverage_multiplier]

\* ScoreProcessor.aggregate_resume_scores.  resume_matches and the result
\* are dicts keyed by resume id, written as lists in insertion order.
aggregate_resume_scores(job_description, resume_matches, resumes) ==
  [j \in 1..Len(resume_matches) |->
     ScoreOneResume(job_description, resume_matches[j],
                    get_total_statements(
                      ResumeById(resumes, resume_matches[j].id).statements))]

(***************************************************************************)
(* The encoders.  Both models are deterministic functions of their text    *)
(* input; the tables below fix one bi-encoder and one cross-encoder over   *)
(* the texts of the model.                                                 *)
(***************************************************************************)
TextA1 == "python: backend (2.0 years experience)"

TextA2 == "python - built api"

TextB1 == "bsc finance"

ReqPython == "python backend"

ReqApi == "api design"

ReqFinance == "finance degree"

ReqTeam == "teamwork"

RequirementTexts == {ReqPython, ReqApi, ReqFinance, ReqTeam}

\* BiEncoder.encode (normalize_embeddings=True): a unit vector per text
encode(text) ==
  [dir |-> CASE text = TextA1 -> 0 [] text = TextA2 -> 1 [] text = TextB1 -> 3
             [] text = ReqPython -> 0 [] text = ReqApi -> 1
             [] text = ReqFinance -> 3 [] text = ReqTeam -> 2
             [] OTHER -> 5,
   mag |-> 1]

\* the raw score the cross-encoder model gives a (requirement, statement)
\* pair, in thousandths
ModelScore(req_text, stmt_text) ==
  CASE req_text = ReqPython ->
         (CASE stmt_text = TextA1 -> 6000 [] stmt_text = TextA2 -> 2000 [] OTHER -> -2000)
    [] req_text = ReqApi ->
         (CASE stmt_text = TextA1 -> 2000 [] stmt_text = TextA2 -> 6000 [] OTHER -> 2000)
    [] req_text = ReqFinance ->
         (CASE stmt_text = TextB1 -> 6000 [] stmt_text = TextA1 -> 0 [] OTHER -> -2000)
    [] OTHER -> 6000

\* CrossEncoder.predict on a batch of pairs: one score per pair, in order
predict(batch) == [j \in 1..Len(batch) |-> ModelScore(batch[j].req_text, batch[j].stmt.text)]

\* 2.0 / (1.0 + np.exp(-score/2)) - 1.0 as float64 arithmetic computes it, in
\* thousandths, at the raw scores of the model.  At raw scores -6 .. 6 the
\* value is the real one rounded to thousandths (0.9051... is 905).  At 80 and
\* 100 np.exp(-score/2) is below 2^-53, 1.0 + it is 1.0 and the result is
\* exactly 1.0; at -80 and -100 the quotient is below 2^-53 and the result is
\* exactly -1.0.
NormalizeTable ==
  { <<-100000, -1000>>, <<-80000, -1000>>,
    <<-6000, -905>>, <<-2000, -462>>, <<0, 0>>, <<2000, 462>>, <<6000, 905>>,
    <<80000, 1000>>, <<100000, 1000>> }

\* a faulty variant: the raw score is returned as it is
normalize_score_identity(score) == score

\* StatementProcessor.normalize_score
normalize_score(score) == (CHOOSE e \in NormalizeTable : e[1] = score)[2]

\* StatementProcessor.normalize_scores on a list
normalize_scores(scores) == [j \in 1..Len(scores) |-> normalize_score(scores[j])]

(***************************************************************************)
(* StatementProcessor: retrieval and reranking.                            *)
(***************************************************************************)
\* all_indices: for every requirement the labels search returns for it
AllIndices(db, top_k, requirements) ==
  [r \in 1..Len(requirements) |-> search(db.index, encode(requirements[r].text), top_k)]

\* all_pairs together with pair_mapping: one entry per requirement and
\* candidate statement, requirement by requirement
RECURSIVE PairsFrom(_, _, _, _)
PairsFrom(db, requirements, all_indices, r) ==
  IF r > Len(requirements) THEN <<>>
  ELSE LET candidate_statements == get_metadata(db.metadata, all_indices[r]).ret
       IN  [c \in 1..Len(candidate_statements) |->
              [req_idx |-> r, stmt_idx |-> c, req_text |-> requirements[r].text,
               stmt |-> candidate_statements[c]]]
           \o PairsFrom(db, requirements, all_indices, r + 1)

\* a faulty variant of the cross-encoder loop: only the first batch is scored
BatchScores_first_batch(all_pairs, batch_size, i, normalized) ==
  IF i >= Len(all_pairs) THEN <<>>
  ELSE normalize_scores(predict(SubSeq(all_pairs, i + 1,
                                       Min(i + batch_size, Len(all_pairs)))))

\* the cross-encoder loop: range(0, len(all_pairs), batch_size), the scores of
\* each batch (normalised or not) appended to all_scores
RECURSIVE BatchScores(_, _, _, _)
BatchScores(all_pairs, batch_size, i, normalized) ==
  IF i >= Len(all_pairs) THEN <<>>
  ELSE LET batch == SubSeq(all_pairs, i + 1, Min(i + batch_size, Len(all_pairs)))
           batch_scores == predict(batch)
       IN  (IF normalized THEN normalize_scores(batch_scores) ELSE batch_scores)
           \o BatchScores(all_pairs, batch_size, i + batch_size, normalized)

\* a faulty variant of the sort: the statements are left in retrieval order
SortByScoreDesc_unsorted(items) == items

\* list.sort(key=score, reverse=True): stable, equal scores keep their order
RECURSIVE SortByScoreDesc(_)
SortByScoreDesc(items) ==
  IF items = <<>> THEN <<>>
  ELSE LET sorted == SortByScoreDesc(SubSeq(items, 1, Len(items) - 1))
           x == items[Len(items)]
           before == SelectSeq(sorted, LAMBDA y : y.score >= x.score)
           after == SelectSeq(sorted, LAMBDA y : y.score < x.score)
       IN  before \o <<x>> \o after

\* max([...], default=0.0)
MaxScore(items) ==
  IF items = <<>> THEN 0
  ELSE (CHOOSE x \in Range(items) : \A y \in Range(items) : y.score <= x.score).score

\* {**stmt, 'score': float(score)}
WithScore(stmt, score) ==
  [text |-> stmt.text, type |-> stmt.type, resume_id |-> stmt.resume_id, score |-> score]

\* the last requirement of the list with the given text (dict keyed by text)
LastWithText(requirements, text) ==
  requirements[CHOOSE j \in 1..Len(requirements) :
                 /\ requirements[j].text = text
                 /\ \A l \in (j + 1)..Len(requirements) : requirements[l].text # text]

RetrievalRaises(db, all_indices) ==
  \E r \in 1..Len(all_indices) : get_metadata(db.metadata, all_indices[r]).raised # None

\* the scored pairs of one call: all_pairs zipped with all_scores
ScoredPairs(db, config, requirements, normalized) ==
  LET all_indices == AllIndices(db, config.top_k_statements, requirements)
      all_pairs == PairsFrom(db, requirements, all_indices, 1)
      all_scores == BatchScores(all_pairs, config.batch_size, 0, normalized)
  IN  [j \in 1..Min(Len(all_pairs), Len(all_scores)) |->
         [req_idx |-> all_pairs[j].req_idx, req_text |-> all_pairs[j].req_text,
          stmt |-> all_pairs[j].stmt, score |-> all_scores[j]]]

\* StatementProcessor.batch_find_matching_statements: a dict from requirement
\* text to MatchResult, or the exception raised
batch_find_matching_statements(db, config, requirements, current_resume_id) ==
  LET all_indices == AllIndices(db, config.top_k_statements, requirements)
      scored == ScoredPairs(db, config, requirements, FALSE)
      results(text) ==
        LET own == SelectSeq(scored, LAMBDA p :
                     p.stmt.resume_id = current_resume_id /\ p.req_text = text)
        IN  [j \in 1..Len(own) |-> WithScore(own[j].stmt, own[j].score)]
  IN  IF RetrievalRaises(db, all_indices)
      THEN [raised |-> IndexError, ret |-> <<>>]
      ELSE [raised |-> None,
            ret |-> [text \in {requirements[j].text : j \in 1..Len(requirements)} |->
                       LET matched_statements == SortByScoreDesc(results(text))
                       IN  [requirement |-> LastWithText(requirements, text),
                            matched_statements |-> matched_statements,
                            score |-> MaxScore(matched_statements)]]]

\* StatementProcessor.batch_find_all_matching_statements: a dict from
\* requirement text to a dict from resume id to MatchResult
batch_find_all_matching_statements(db, config, requirements) ==
  LET all_indices == AllIndices(db, config.top_k_statements, requirements)
      scored == ScoredPairs(db, config, requirements, TRUE)
      last_idx(text) ==
        CHOOSE j \in 1..Len(requirements) :
          /\ requirements[j].text = text
          /\ \A l \in (j + 1)..Len(requirements) : requirements[l].text # text
      req_scores(text) == SelectSeq(scored, LAMBDA p : p.req_idx = last_idx(text))
      group(text, resume_id) ==
        LET own == SelectSeq(req_scores(text), LAMBDA p : p.stmt.resume_id = resume_id)
        IN  [j \in 1..Len(own) |-> WithScore(own[j].stmt, own[j].score)]
  IN  IF RetrievalRaises(db, all_indices)
      THEN [raised |-> IndexError, ret |-> <<>>]
      ELSE [raised |-> None,
            ret |-> [text \in {requirements[j].text : j \in 1..Len(requirements)} |->
                       [resume_id \in {req_scores(text)[j].stmt.resume_id :
                                         j \in 1..Len(req_scores(text))} |->
                          LET matches == SortByScoreDesc(group(text, resume_id))
                          IN  [requirement |-> requirements[last_idx(text)],
                               matched_statements |-> matches,
                               score |-> MaxScore(matches)]]]]

(***************************************************************************)
(* Matcher (matcher.py).                                                   *)
(***************************************************************************)
Requirement(text, type) == [text |-> text, type |-> type, category |-> "requirement"]

\* all_requirements, without the type tags
AllRequirements(job_description) ==
  job_description.must_have_requirements \o job_description.nice_to_have_requirements

\* StatementProcessor.initialize_vector_store: the vector store and the files
\* after the call, and the exception raised
initialize_vector_store(files, db, statements, force_recreate) ==
  IF files[StorePath].index_file.exists /\ ~force_recreate
  THEN LET l == load(files, StorePath)
       IN  [raised |-> l.raised, files |-> files,
            db |-> IF l.raised = None THEN l.db ELSE db]
  ELSE IF statements = <<>>
  THEN [raised |-> IndexError, files |-> files, db |-> db]  \* embeddings.shape[1]
  ELSE LET embeddings == [j \in 1..Len(statements) |-> encode(statements[j].text)]
           a == add(EmptyDB, embeddings, statements)
           w == save(files, a.db, StorePath)
       IN  [raised |-> w.raised, files |-> w.files, db |-> a.db]

\* the matches of one resume in Matcher.match: an entry for every requirement
MatchEntries(requirements, batch_results) ==
  [j \in 1..Len(requirements) |->
     [requirement |-> requirements[j], matches |-> batch_results[requirements[j].text]]]

\* the matches of one resume in Matcher.match_new: an entry for every
\* requirement whose results hold the resume id
MatchEntriesNew(requirements, all_matches, resume_id) ==
  LET present == SelectSeq(requirements,
                           LAMBDA req : resume_id \in DOMAIN all_matches[req.text])
  IN  [j \in 1..Len(present) |->
         [requirement |-> present[j], matches |-> all_matches[present[j].text][resume_id]]]

\* resume_matches as Matcher.match builds it, or the exception raised
MatchResumeMatches(db, config, job_description, resumes) ==
  LET found(resume) ==
        batch_find_matching_statements(db, config, AllRequirements(job_description),
                                       resume.id)
  IN  IF \E j \in 1..Len(resumes) : found(resumes[j]).raised # None
      THEN [raised |-> IndexError, ret |-> <<>>]
      ELSE [raised |-> None,
            ret |-> [j \in 1..Len(resumes) |->
                       [id |-> resumes[j].id,
                        must_have |->
                          MatchEntries(job_description.must_have_requirements,
                                       found(resumes[j]).ret),
                        nice_to_have |->
                          MatchEntries(job_description.nice_to_have_requirements,
                                       found(resumes[j]).ret)]]]

\* resume_matches as Matcher.match_new builds it, or the exception raised
MatchNewResumeMatches(db, config, job_description, resumes) ==
  LET all_matches ==
        batch_find_all_matching_statements(db, config, AllRequirements(job_description))
  IN  IF all_matches.raised # None
      THEN [raised |-> all_matches.raised, ret |-> <<>>]
      ELSE [raised |-> None,
            ret |-> [j \in 1..Len(resumes) |->
                       [id |-> resumes[j].id,
                        must_have |->
                          MatchEntriesNew(job_description.must_have_requirements,
                                          all_matches.ret, resumes[j].id),
                        nice_to_have |->
                          MatchEntriesNew(job_description.nice_to_have_requirements,
                                          all_matches.ret, resumes[j].id)]]]

\* a faulty variant of the sort: the list is left in insertion order
SortRanked_unsorted(items) == items

\* scored_resumes.sort(key=score, reverse=True): stable
RECURSIVE SortRanked(_)
SortRanked(items) ==
  IF items = <<>> THEN <<>>
  ELSE LET sorted == SortRanked(SubSeq(items, 1, Len(items) - 1))
           x == items[Len(items)]
           before == SelectSeq(sorted, LAMBDA y : ~RLess(y.score, x.score))
           after == SelectSeq(sorted, LAMBDA y : RLess(y.score, x.score))
       IN  before \o <<x>> \o after

\* Matcher._prepare_ranked_results (the requirement_matches of each entry are
\* the resume_matches entry of the same id)
prepare_ranked_results(resume_scores, resume_matches, resumes) ==
  LET positive == SelectSeq(resume_scores, LAMBDA e : RLess(RZero, e.score))
  IN  SortRanked([j \in 1..Len(positive) |->
                    [id |-> positive[j].id,
                     score |-> positive[j].score,
                     must_have_coverage |-> positive[j].must_have_coverage,
                     nice_to_have_coverage |-> positive[j].nice_to_have_coverage,
                     statement_coverage |-> positive[j].statement_coverage,
                     category |-> ResumeById(resumes, positive[j].id).category]])

NotRun ==
  [done |-> FALSE, raised |-> None, resume_matches |-> <<>>, resume_scores |-> <<>>,
   ranked |-> <<>>]

\* the rest of Matcher.match / Matcher.match_new once resume_matches is built
Finish(found, job_description, resumes) ==
  IF found.raised # None
  THEN [NotRun EXCEPT !.done = TRUE, !.raised = found.raised]
  ELSE LET resume_scores == aggregate_resume_scores(job_description, found.ret, resumes)
       IN  [done |-> TRUE, raised |-> None, resume_matches |-> found.ret,
            resume_scores |-> resume_scores,
            ranked |-> prepare_ranked_results(resume_scores, found.ret, resumes)]

\* Matcher.match
match(db, config, job_description, resumes) ==
  Finish(MatchResumeMatches(db, config, job_description, resumes), job_description, resumes)

\* Matcher.match_new
match_new(db, config, job_description, resumes) ==
  Finish(MatchNewResumeMatches(db, config, job_description, resumes),
         job_description, resumes)

(***************************************************************************)
(* The VectorDB interface driven by arbitrary calls.                       *)
(***************************************************************************)
NoJob == [must_have_requirements |-> <<>>, nice_to_have_requirements |-> <<>>]

NoRun ==
  [job_description |-> NoJob, resumes |-> <<>>,
   config |-> [top_k_statements |-> 1, batch_size |-> 1], stage |-> "none"]

VecArgs == {[dir |-> 0, mag |-> 2], [dir |-> 2, mag |-> 1]}

MetadataArgs == {s \in StatementPool : s.type # "skill_evidence"}

\* the lengths of the argument lists of one add call
AddLens == {0, 1, 2}

ArgLists(S) == UNION {[1..m -> S] : m \in AddLens}

QueryArgs == {[dir |-> 0, mag |-> 1], [dir |-> 1, mag |-> 1]}

InitVDB ==
  /\ vector_db = EmptyDB
  /\ disk = [p \in Paths |-> [index_file |-> NoFile, metadata_file |-> NoFile]]
  /\ saved = [p \in Paths |-> NotSaved]
  /\ last_call = Call("init", None, None, None)
  /\ run = NoRun
  /\ out = [match |-> NotRun, match_new |-> NotRun]

Add ==
  \E vectors \in ArgLists(VecArgs), metadata \in ArgLists(MetadataArgs) :
    LET r == add(vector_db, vectors, metadata) IN
    /\ Len(r.db.index) <= MaxIndexSize
    /\ Len(r.db.metadata) <= MaxIndexSize
    /\ vector_db' = r.db
    /\ last_call' = Call("add", [vectors |-> vectors, metadata |-> metadata], r.raised, None)
    /\ UNCHANGED <<disk, saved, run, out>>

Save ==
  \E path \in Paths :
    LET r == save(disk, vector_db, path) IN
    /\ disk' = r.files
    /\ saved' = IF r.raised = None THEN [saved EXCEPT ![path] = SavedAs(vector_db)] ELSE saved
    /\ last_call' = Call("save", [path |-> path], r.raised, None)
    /\ UNCHANGED <<vector_db, run, out>>

\* vector_db = VectorDB.load(path): the variable is assigned only when load returns
Load ==
  \E path \in Paths :
    LET r == load(disk, path) IN
    /\ vector_db' = IF r.raised = None THEN r.db ELSE vector_db
    /\ last_call' = Call("load", [path |-> path], r.raised, None)
    /\ UNCHANGED <<disk, saved, run, out>>

Search ==
  \E query \in QueryArgs, k \in 1..MaxTopK :
    /\ last_call' = Call("search", [query |-> query, k |-> k], None,
                         search(vector_db.index, query, k))
    /\ UNCHANGED <<vector_db, disk, saved, run, out>>

\* the caller resolves the labels it got from search (statement_processor.py:191)
GetMetadata ==
  /\ last_call.op = "search"
  /\ LET got == get_metadata(vector_db.metadata, last_call.ret)
     IN  last_call' = Call("get_metadata",
                           [indices |-> last_call.ret, k |-> last_call.args.k],
                           got.raised, got.ret)
  /\ UNCHANGED <<vector_db, disk, saved, run, out>>

NextVDB == Add \/ Save \/ Load \/ Search \/ GetMetadata

SpecVDB == InitVDB /\ [][NextVDB]_vars

Size == Len(vector_db.metadata)

\* C1: after any sequence of add calls the index holds as many vectors as
\* metadata entries; an add with matching lengths appends its (normalised)
\* vectors and its metadata pairwise at the end and leaves every stored entry
\* where it was; an add with differing lengths raises and changes nothing.
C1_AddKeepsPairing ==
  /\ [](Len(vector_db.index) = Len(vector_db.metadata))
  /\ [][last_call'.op = "add" =>
         LET a == last_call'.args IN
         IF Len(a.vectors) # Len(a.metadata)
         THEN last_call'.raised = "ValueError" /\ vector_db' = vector_db
         ELSE /\ last_call'.raised = None
              /\ Len(vector_db'.index) = Len(vector_db.index) + Len(a.vectors)
              /\ Len(vector_db'.metadata) = Len(vector_db.metadata) + Len(a.vectors)
              /\ \A i \in 1..Len(vector_db.index) :
                    /\ vector_db'.index[i] = vector_db.index[i]
                    /\ vector_db'.metadata[i] = vector_db.metadata[i]
              /\ \A j \in 1..Len(a.vectors) :
                    /\ vector_db'.index[Len(vector_db.index) + j] = normalize_L2(a.vectors[j])
                    /\ vector_db'.metadata[Len(vector_db.metadata) + j] = a.metadata[j]
       ]_vars

\* C1 witness: an add with differing lengths was rejected on an index that
\* already holds two entries with different payloads.
C1_Witness ==
  /\ last_call.op = "add"
  /\ last_call.raised = "ValueError"
  /\ Len(vector_db.index) = 2
  /\ vector_db.metadata[1] # vector_db.metadata[2]

\* C2: after save(path) and a later load(path), the loaded index has the size
\* of the saved one and, at every position i, get_metadata([i]) is the payload
\* and the vector is the vector stored at i when it was saved.
C2_SaveLoadRoundTrip ==
  (last_call.op = "load" /\ last_call.raised = None) =>
    LET s == saved[last_call.args.path].db IN
    /\ saved[last_call.args.path].present
    /\ Len(vector_db.metadata) = Len(s.metadata)
    /\ Len(vector_db.index) = Len(s.index)
    /\ \A i \in 0..(Len(s.metadata) - 1) :
          /\ get_metadata(vector_db.metadata, <<i>>).ret = <<s.metadata[i + 1]>>
          /\ vector_db.index[i + 1] = s.index[i + 1]

\* C2 witness: an index of two different entries was saved and loaded back.
C2_Witness ==
  /\ last_call.op = "load"
  /\ last_call.raised = None
  /\ Len(vector_db.metadata) = 2
  /\ vector_db.metadata[1] # vector_db.metadata[2]
  /\ vector_db.index[1] # vector_db.index[2]

\* C3: search(query, k) returns exactly min(k, size()) positions, each in
\* [0, size()), and get_metadata resolves no placeholder position to a stored
\* payload (it returns at most min(k, size()) payloads).
C3_SearchReturnsMinKSize ==
  /\ last_call.op = "search" =>
        /\ Len(last_call.ret) = Min(last_call.args.k, Size)
        /\ \A j \in 1..Len(last_call.ret) :
              last_call.ret[j] >= 0 /\ last_call.ret[j] < Size
  /\ (last_call.op = "get_metadata" /\ last_call.raised = None) =>
        Len(last_call.ret) <= Min(last_call.args.k, Size)

(***************************************************************************)
(* A matcher run as matcher_usage.py drives it: the resumes are loaded,    *)
(* their statements prepared, the vector store initialised (created and    *)
(* saved, or loaded from the files an earlier run left), and the job is    *)
(* matched.  A later run may find other resumes and the same files.        *)
(***************************************************************************)
InjectiveSeqs(S, n) ==
  {q \in SeqsUpTo(S, n) : \A i, j \in 1..Len(q) : i # j => q[i] # q[j]}

Jobs ==
  { [must_have_requirements |->
       [j \in 1..Len(m) |-> Requirement(m[j], "must_have")],
     nice_to_have_requirements |->
       [j \in 1..Len(n) |-> Requirement(n[j], "nice_to_have")]] :
    <<m, n>> \in { mn \in InjectiveSeqs(RequirementTexts, MaxMustHave)
                          \X InjectiveSeqs(RequirementTexts, 1) :
                   Range(mn[1]) \cap Range(mn[2]) = {} } }

ResumeLists == InjectiveSeqs(ResumePool, Cardinality(ResumePool)) \ {<<>>}

\* config.get('batch_size', 32), and a batch size that splits the pairs
BatchSizes == {2, 32}

Configs == [top_k_statements : 1..MaxTopK, batch_size : BatchSizes]

\* all_statements (matcher_usage.py:65-71)
RECURSIVE Corpus(_)
Corpus(resumes) ==
  IF resumes = <<>> THEN <<>>
  ELSE prepare_statements(Head(resumes).statements, Head(resumes).id)
       \o Corpus(Tail(resumes))

Init ==
  /\ vector_db = EmptyDB
  /\ disk = [p \in Paths |-> [index_file |-> NoFile, metadata_file |-> NoFile]]
  /\ saved = [p \in Paths |-> NotSaved]
  /\ last_call = Call("init", None, None, None)
  /\ run \in [job_description : Jobs, resumes : ResumeLists, config : Configs,
              stage : {"start"}]
  /\ out = [match |-> NotRun, match_new |-> NotRun]

InitializeVectorStore ==
  \E force_recreate \in BOOLEAN :
    LET r == initialize_vector_store(disk, vector_db, Corpus(run.resumes), force_recreate)
    IN  /\ run.stage = "start"
        /\ vector_db' = r.db
        /\ disk' = r.files
        /\ saved' = IF r.raised = None
                       /\ (force_recreate \/ ~disk[StorePath].index_file.exists)
                    THEN [saved EXCEPT ![StorePath] = SavedAs(r.db)]
                    ELSE saved
        /\ run' = [run EXCEPT !.stage = IF r.raised = None THEN "ready" ELSE "failed"]
        /\ last_call' = Call("initialize_vector_store",
                             [force_recreate |-> force_recreate], r.raised, None)
        /\ UNCHANGED out

Match ==
  /\ run.stage = "ready"
  /\ ~out.match.done
  /\ out' = [out EXCEPT !.match =
               match(vector_db, run.config, run.job_description, run.resumes)]
  /\ last_call' = Call("match", None, out'.match.raised, None)
  /\ UNCHANGED <<vector_db, disk, saved, run>>

MatchNew ==
  /\ run.stage = "ready"
  /\ ~out.match_new.done
  /\ out' = [out EXCEPT !.match_new =
               match_new(vector_db, run.config, run.job_description, run.resumes)]
  /\ last_call' = Call("match_new", None, out'.match_new.raised, None)
  /\ UNCHANGED <<vector_db, disk, saved, run>>

\* the next run of the program: other resumes may be found, the files stay
NewRun ==
  \E resumes \in ResumeLists :
    /\ run.stage \in {"ready", "failed"}
    /\ run' = [run EXCEPT !.resumes = resumes, !.stage = "start"]
    /\ vector_db' = EmptyDB
    /\ out' = [match |-> NotRun, match_new |-> NotRun]
    /\ last_call' = Call("init", None, None, None)
    /\ UNCHANGED <<disk, saved>>

Next == InitializeVectorStore \/ Match \/ MatchNew \/ NewRun

Spec == Init /\ [][Next]_vars

(***************************************************************************)
(* ScoreProcessor.aggregate_resume_scores on its own: every job shape,     *)
(* every resume of the pool and every list of match results of the shape   *)
(* the matcher hands over.                                                 *)
(***************************************************************************)
AggResumes == {ResumeA, ResumeB, ResumeC, ResumeE}

\* the scores of the matched statements of one MatchResult, best first
AggMatchedLists == { <<>>, <<-462>>, <<462>>, <<900>>, <<900, 462>>, <<462, -462>> }

\* what the matcher hands over for one requirement: no entry, or a MatchResult
AggOptions ==
  {[present |-> FALSE, scores |-> <<>>]}
  \cup {[present |-> TRUE, scores |-> l] : l \in AggMatchedLists}

AggRequirements(n, type) ==
  [j \in 1..n |-> Requirement(type \o " requirement " \o ToString(j), type)]

AggMatchResult(requirement, resume_id, scores) ==
  LET matched_statements ==
        [j \in 1..Len(scores) |->
           [text |-> "statement " \o ToString(j), type |-> "education",
            resume_id |-> resume_id, score |-> scores[j]]]
  IN  [requirement |-> requirement, matched_statements |-> matched_statements,
       score |-> MaxScore(matched_statements)]

RECURSIVE AggEntries(_, _, _, _)
AggEntries(requirements, resume_id, choice, j) ==
  IF j > Len(requirements) THEN <<>>
  ELSE (IF choice[j].present
        THEN << [requirement |-> requirements[j],
                 matches |-> AggMatchResult(requirements[j], resume_id, choice[j].scores)] >>
        ELSE <<>>)
       \o AggEntries(requirements, resume_id, choice, j + 1)

InitAgg ==
  /\ vector_db = EmptyDB
  /\ disk = [p \in Paths |-> [index_file |-> NoFile, metadata_file |-> NoFile]]
  /\ saved = [p \in Paths |-> NotSaved]
  /\ last_call = Call("init", None, None, None)
  /\ \E m \in 0..MaxAggMustHave, n \in 0..1, resume \in AggResumes :
       \E must_choice \in [1..m -> AggOptions], nice_choice \in [1..n -> AggOptions] :
         LET job == [must_have_requirements |-> AggRequirements(m, "must_have"),
                     nice_to_have_requirements |-> AggRequirements(n, "nice_to_have")]
         IN  /\ run = [job_description |-> job, resumes |-> <<resume>>,
                       config |-> NoRun.config, stage |-> "matched"]
             /\ out = [match |-> NotRun,
                       match_new |->
                         [NotRun EXCEPT !.resume_matches =
                            << [id |-> resume.id,
                                must_have |-> AggEntries(job.must_have_requirements,
                                                         resume.id, must_choice, 1),
                                nice_to_have |-> AggEntries(job.nice_to_have_requirements,
                                                            resume.id, nice_choice, 1)] >>]]

\* resume_scores = aggregate_resume_scores(...); return _prepare_ranked_results(...)
Aggregate ==
  /\ run.stage = "matched"
  /\ ~out.match_new.done
  /\ out' = [out EXCEPT !.match_new =
               Finish([raised |-> None, ret |-> out.match_new.resume_matches],
                      run.job_description, run.resumes)]
  /\ last_call' = Call("aggregate_resume_scores", None, None, None)
  /\ UNCHANGED <<vector_db, disk, saved, run>>

NextAgg == Aggregate

SpecAgg == InitAgg /\ [][NextAgg]_vars

(***************************************************************************)
(* Claims about the matcher and the aggregator.                            *)
(***************************************************************************)
\* the calls of this run that returned
Returned == {o \in {out.match, out.match_new} : o.done /\ o.raised = None}

\* Matcher.match_new (the call matcher_usage.py makes), when it returned
ReturnedBulk == {o \in {out.match_new} : o.done /\ o.raised = None}

EntriesOf(matches) == matches.must_have \o matches.nice_to_have

One == <<1, 1>>

\* C4: every match score handed to aggregate_resume_scores, by Matcher.match
\* and by Matcher.match_new alike, is normalize_score of the reranker's raw
\* score of that (requirement, statement) pair; so is the best score of every
\* MatchResult.
C4_ScoresNormalized ==
  \A o \in Returned : \A j \in 1..Len(o.resume_matches) :
    \A e \in Range(EntriesOf(o.resume_matches[j])) :
      /\ \A st \in Range(e.matches.matched_statements) :
           st.score = normalize_score(ModelScore(e.requirement.text, st.text))
      /\ e.matches.matched_statements # <<>> =>
           \E st \in Range(e.matches.matched_statements) :
             e.matches.score = normalize_score(ModelScore(e.requirement.text, st.text))

\* C5: no MatchResult with empty matched_statements is handed to the
\* aggregator, in either mode: a (requirement, resume) pair for which retrieval
\* returned no statement of the resume has no entry at all.
C5_NoEmptyMatchResult ==
  \A o \in Returned : \A j \in 1..Len(o.resume_matches) :
    \A e \in Range(EntriesOf(o.resume_matches[j])) :
      /\ e.matches.matched_statements # <<>>
      /\ \A st \in Range(e.matches.matched_statements) :
           st.resume_id = o.resume_matches[j].id

\* C6: for the same job, resumes, index and config, Matcher.match and
\* Matcher.match_new return the same ranked list (ids, order, score and
\* coverage values).
C6_ModesAgree ==
  (out.match.done /\ out.match_new.done) =>
    /\ out.match.raised = out.match_new.raised
    /\ out.match.ranked = out.match_new.ranked

\* the number of must-have matches of a resume with score > 0.5
CoveredMustHave(matches) ==
  Cardinality({i \in 1..Len(matches.must_have) : matches.must_have[i].matches.score > 500})

CoveredNiceToHave(matches) ==
  Cardinality({i \in 1..Len(matches.nice_to_have) :
                 matches.nice_to_have[i].matches.score > 500})

\* must-have coverage below 0.3 (a job without must-have requirements has
\* coverage 0)
BelowGate(matches) ==
  LET total == Len(run.job_description.must_have_requirements)
  IN  total = 0 \/ 10 * CoveredMustHave(matches) < 3 * total

\* C7: a resume whose must-have coverage (must-have matches with score > 0.5
\* over the must-have requirements of the job) is below 0.3 is reported with
\* score 0 and all three coverages 0, whatever its match scores are.
C7_CoverageGate ==
  \A o \in Returned : \A j \in 1..Len(o.resume_matches) :
    BelowGate(o.resume_matches[j]) =>
      /\ o.resume_scores[j].id = o.resume_matches[j].id
      /\ o.resume_scores[j].score = RZero
      /\ o.resume_scores[j].must_have_coverage = RZero
      /\ o.resume_scores[j].nice_to_have_coverage = RZero
      /\ o.resume_scores[j].statement_coverage = RZero

\* C7 witness: a gated resume of ten statements that has a must-have match
\* below the threshold and a nice-to-have match of 0.9.
C7_Witness ==
  \E o \in Returned : \E j \in 1..Len(o.resume_matches) :
    /\ BelowGate(o.resume_matches[j])
    /\ o.resume_matches[j].id = ResumeC.id
    /\ \E e \in Range(o.resume_matches[j].must_have) : e.matches.score = 462
    /\ \E e \in Range(o.resume_matches[j].nice_to_have) : e.matches.score = 900

\* mean(scores) * covered / total * weight, 0 for no scores
ClaimedComponent(scores, covered, total, weight) ==
  IF Len(scores) = 0 THEN RZero
  ELSE RMul(RMul(<<SeqSum(scores), 1000 * Len(scores)>>, <<covered, total>>), weight)

\* the example of the specification: two must-have requirements, one matched
\* at 0.9 and the other not matched, no nice-to-have, ten statements
IsExample(matches) ==
  /\ Len(run.job_description.must_have_requirements) = 2
  /\ Len(run.job_description.nice_to_have_requirements) = 0
  /\ matches.id = ResumeC.id
  /\ Len(matches.must_have) = 1
  /\ matches.must_have[1].matches.score = 900
  /\ Len(matches.must_have[1].matches.matched_statements) = 1

InUnit(r) == ~RLess(r, RZero) /\ ~RLess(One, r)

\* C9: every coverage field reported for a resume lies in [0, 1] (stated for
\* the matches Matcher.match_new produces, whose scores are normalised).
C9_CoveragesWithinUnit ==
  \A o \in ReturnedBulk : \A j \in 1..Len(o.resume_scores) :
    /\ InUnit(o.resume_scores[j].must_have_coverage)
    /\ InUnit(o.resume_scores[j].nice_to_have_coverage)
    /\ InUnit(o.resume_scores[j].statement_coverage)

\* the distinct (requirement, statement) pairs matched for a resume
MatchedPairs(matches) ==
  UNION { {<<e.requirement.text, st.text>> : st \in Range(e.matches.matched_statements)} :
          e \in Range(EntriesOf(matches)) }

\* those of them that score above the relevance threshold
MatchedPairsAbove(matches) ==
  UNION { {<<e.requirement.text, st.text>> :
             st \in {x \in Range(e.matches.matched_statements) : x.score > 500}} :
          e \in Range(EntriesOf(matches)) }

ClaimedStatementCoverage(count, total) ==
  IF total = 0 THEN RZero ELSE RMax(<<1, 5>>, Rat(count, total))

\* C10: the statement coverage of a resume that passes the gate is
\* max(0.2, matched pairs / statements of the resume), the matched pairs being
\* the distinct (requirement, statement) pairs matched for the resume in both
\* categories (all of them, or those above the relevance threshold); stated
\* for the matches Matcher.match_new produces.
C10_MatchedCountIsPairs ==
  \A o \in ReturnedBulk : \A j \in 1..Len(o.resume_matches) :
    LET matches == o.resume_matches[j]
        resume == ResumeById(run.resumes, matches.id)
        total == Len(prepare_statements(resume.statements, resume.id))
    IN  ~BelowGate(matches) =>
          \/ o.resume_scores[j].statement_coverage
               = ClaimedStatementCoverage(Cardinality(MatchedPairs(matches)), total)
          \/ o.resume_scores[j].statement_coverage
               = ClaimedStatementCoverage(Cardinality(MatchedPairsAbove(matches)), total)

(***************************************************************************)
(* The pure functions of the processors called on their own: the           *)
(* arguments of the call are drawn at the start, the call returns.         *)
(***************************************************************************)
Pending(fn, args) == Call("call", [fn |-> fn, args |-> args], None, None)

CoverageCalls ==
  {Pending("calculate_statement_coverage_multiplier",
           [matched_statements |-> m, total_statements |-> n]) :
     m \in 0..MaxMatched, n \in 0..MaxTotal}

\* skills with one, two and no evidence items
SkillPool ==
  { ResumeA.statements.skills[1], ResumeC.statements.skills[1],
    [name |-> "excel", years |-> 9, level |-> "expert", description |-> "models",
     evidence |-> <<>>] }

ResumeStatementsPool ==
  [ personal_info : {<<"Ann">>},
    skills : SeqsUpTo(SkillPool, 2),
    education : {<<>>, <<"bsc">>, <<"bsc", "msc">>},
    certifications : {<<>>, <<"aws">>},
    personality_traits : {<<>>, <<"curious">>} ]

PrepareCalls ==
  {Pending("prepare_statements", [resume_statements |-> s, resume_id |-> id]) :
     s \in ResumeStatementsPool, id \in {ResumeA.id, ResumeB.id}}

\* the raw scores normalize_score is tabulated at
RawScores == {e[1] : e \in NormalizeTable}

NormalizeCalls ==
  {Pending("normalize_scores", [scores |-> s]) : s \in [1..2 -> RawScores]}

\* the vector store initialize_vector_store creates for the resumes
FreshStore(resumes) ==
  initialize_vector_store([p \in Paths |-> [index_file |-> NoFile, metadata_file |-> NoFile]],
                          EmptyDB, Corpus(resumes), TRUE).db

RerankCalls ==
  {Pending("batch_find_all_matching_statements",
           [db |-> FreshStore(resumes), requirements |-> AllRequirements(job),
            config |-> [top_k_statements |-> k, batch_size |-> b]]) :
     resumes \in ResumeLists, job \in Jobs, k \in 1..MaxTopK, b \in 1..MaxBatchSize}

PendingCalls == CoverageCalls \cup PrepareCalls \cup NormalizeCalls \cup RerankCalls

InitFn ==
  /\ vector_db = EmptyDB
  /\ disk = [p \in Paths |-> [index_file |-> NoFile, metadata_file |-> NoFile]]
  /\ saved = [p \in Paths |-> NotSaved]
  /\ run = NoRun
  /\ out = [match |-> NotRun, match_new |-> NotRun]
  /\ last_call \in PendingCalls

CallCoverageMultiplier ==
  /\ last_call.op = "call"
  /\ last_call.args.fn = "calculate_statement_coverage_multiplier"
  /\ LET a == last_call.args.args
     IN  last_call' = Call(last_call.args.fn, a, None,
                           calculate_statement_coverage_multiplier(
                             a.matched_statements, a.total_statements))
  /\ UNCHANGED <<vector_db, disk, saved, run, out>>

CallPrepareStatements ==
  /\ last_call.op = "call"
  /\ last_call.args.fn = "prepare_statements"
  /\ LET a == last_call.args.args
     IN  last_call' = Call(last_call.args.fn, a, None,
                           prepare_statements(a.resume_statements, a.resume_id))
  /\ UNCHANGED <<vector_db, disk, saved, run, out>>

CallNormalizeScores ==
  /\ last_call.op = "call"
  /\ last_call.args.fn = "normalize_scores"
  /\ LET a == last_call.args.args
     IN  last_call' = Call(last_call.args.fn, a, None, normalize_scores(a.scores))
  /\ UNCHANGED <<vector_db, disk, saved, run, out>>

CallBatchFindAll ==
  /\ last_call.op = "call"
  /\ last_call.args.fn = "batch_find_all_matching_statements"
  /\ LET a == last_call.args.args
         r == batch_find_all_matching_statements(a.db, a.config, a.requirements)
     IN  last_call' = Call(last_call.args.fn, a, r.raised, r.ret)
  /\ UNCHANGED <<vector_db, disk, saved, run, out>>

NextFn ==
  \/ CallCoverageMultiplier \/ CallPrepareStatements \/ CallNormalizeScores
  \/ CallBatchFindAll

SpecFn == InitFn /\ [][NextFn]_vars

PairResumes == {ResumeB, ResumeC, ResumeD}

\* a one-statement resume can pass the coverage gate with one match only when
\* the job has at most three must-have requirements
PairMustHaveCounts == {1, 2, 3}

\* what the matcher hands over for one requirement: no entry, a moderate match
\* or a match with the largest score normalize_score returns
PairOptions ==
  { [present |-> FALSE, scores |-> <<>>],
    [present |-> TRUE, scores |-> <<600>>],
    [present |-> TRUE, scores |-> <<Thousand>>] }

PairConfig(top_n) == [top_k_statements |-> 1, batch_size |-> 32, top_n_resumes |-> top_n]

InitPair ==
  /\ vector_db = EmptyDB
  /\ disk = [p \in Paths |-> [index_file |-> NoFile, metadata_file |-> NoFile]]
  /\ saved = [p \in Paths |-> NotSaved]
  /\ last_call = Call("init", None, None, None)
  /\ \E m \in PairMustHaveCounts, top_n \in 1..MaxTopN :
       \E resumes \in {q \in InjectiveSeqs(PairResumes, 2) : Len(q) = 2} :
         \E choice \in [1..2 -> [1..m -> PairOptions]] :
           LET job == [must_have_requirements |-> AggRequirements(m, "must_have"),
                       nice_to_have_requirements |-> <<>>]
           IN  /\ run = [job_description |-> job, resumes |-> resumes,
                         config |-> PairConfig(top_n), stage |-> "matched"]
               /\ out = [match |-> NotRun,
                         match_new |->
                           [NotRun EXCEPT !.resume_matches =
                              [j \in 1..2 |->
                                 [id |-> resumes[j].id,
                                  must_have |-> AggEntries(job.must_have_requirements,
                                                           resumes[j].id, choice[j], 1),
                                  nice_to_have |-> <<>>]]]]

SpecPair == InitPair /\ [][NextAgg]_vars

\* the ids of the resumes whose aggregated score is positive
PositiveIds(o) ==
  {o.resume_scores[j].id : j \in {i \in 1..Len(o.resume_scores) :
                                    o.resume_scores[i].score[1] > 0}}

\* C12: the ranked list holds exactly the resumes whose aggregated score is
\* > 0, each once and with that score, in non-increasing order of score.
C12_RankedPositiveDescending ==
  \A o \in Returned :
    /\ {o.ranked[i].id : i \in 1..Len(o.ranked)} = PositiveIds(o)
    /\ \A i, j \in 1..Len(o.ranked) : i # j => o.ranked[i].id # o.ranked[j].id
    /\ \A i \in 1..Len(o.ranked) : \E j \in 1..Len(o.resume_scores) :
          /\ o.resume_scores[j].id = o.ranked[i].id
          /\ o.resume_scores[j].score = o.ranked[i].score
    /\ \A i \in 1..(Len(o.ranked) - 1) :
          o.ranked[i].score[1] * o.ranked[i + 1].score[2]
            >= o.ranked[i + 1].score[1] * o.ranked[i].score[2]

\* C12 witness: both resumes are ranked, the second of the input first because
\* its score is the larger one.
C12_Witness ==
  \E o \in Returned :
    /\ Len(o.ranked) = 2
    /\ o.ranked[1].id = run.resumes[2].id
    /\ o.ranked[2].id = run.resumes[1].id
    /\ RLess(o.ranked[2].score, o.ranked[1].score)

\* the resume ids in ascending (lexicographic) order
IdsAscending == <<"engineering/a.json", "engineering/c.json", "finance/b.json",
                  "finance/d.json", "legal/e.json">>

IdPosition(id) == CHOOSE k \in 1..Len(IdsAscending) : IdsAscending[k] = id

\* C13: two resumes of the ranked list with equal score are ordered by resume
\* id ascending, whatever their order in the input.
C13_TiesByIdAscending ==
  \A o \in Returned : \A i, j \in 1..Len(o.ranked) :
    (i < j /\ o.ranked[i].score = o.ranked[j].score) =>
      IdPosition(o.ranked[i].id) < IdPosition(o.ranked[j].id)

\* C14: the ranked list has min(top_n_resumes, resumes with score > 0) entries.
C14_AtMostTopN ==
  \A o \in Returned :
    Len(o.ranked) = Min(run.config.top_n_resumes, Cardinality(PositiveIds(o)))

\* a resume that matches exactly one must-have requirement, with the maximum
\* score, and nothing else
PerfectOnOne(matches) ==
  /\ Len(matches.must_have) = 1
  /\ matches.must_have[1].matches.score = 1000
  /\ matches.nice_to_have = <<>>

\* a resume that matches more than half of the must-have requirements with
\* scores above 0.5
CoversMost(matches) ==
  2 * Cardinality({i \in 1..Len(matches.must_have) :
                     matches.must_have[i].matches.score > 500})
    > Len(run.job_description.must_have_requirements)

\* C15: a resume that matches one must-have requirement perfectly and nothing
\* else never scores above a resume of the same run that matches more than
\* half of the must-have requirements above the relevance threshold (stated
\* for a second resume that covers more requirements than the first).
C15_BreadthNotOutranked ==
  \A o \in Returned : \A a, b \in 1..Len(o.resume_matches) :
    (/\ PerfectOnOne(o.resume_matches[a])
     /\ CoversMost(o.resume_matches[b])
     /\ CoveredMustHave(o.resume_matches[b]) > CoveredMustHave(o.resume_matches[a])) =>
      o.resume_scores[a].score[1] * o.resume_scores[b].score[2]
        <= o.resume_scores[b].score[1] * o.resume_scores[a].score[2]

\* what retrieval returned for a requirement, in retrieval order, and the
\* statements of one resume among them
Retrieved(requirement) ==
  get_metadata(vector_db.metadata,
               search(vector_db.index, encode(requirement.text),
                      run.config.top_k_statements)).ret

OwnRetrieved(requirement, resume_id) ==
  SelectSeq(Retrieved(requirement), LAMBDA st : st.resume_id = resume_id)

Texts(statements) == [k \in 1..Len(statements) |-> statements[k].text]

Occurrences(statements, text) ==
  Cardinality({k \in 1..Len(statements) : statements[k].text = text})

\* C16: in both modes, the matched_statements of every MatchResult are the
\* retrieved statements of the resume, sorted by score descending with equal
\* scores in retrieval order; score is the largest of their scores, 0 for an
\* empty list.
C16_MatchResultSorted ==
  \A o \in Returned : \A j \in 1..Len(o.resume_matches) :
    \A e \in Range(EntriesOf(o.resume_matches[j])) :
      LET ms == e.matches.matched_statements
          own == OwnRetrieved(e.requirement, o.resume_matches[j].id)
      IN  /\ \A st \in Range(ms) : st.resume_id = o.resume_matches[j].id
          /\ Len(ms) = Len(own)
          /\ \A st \in Range(ms) : Occurrences(ms, st.text) = Occurrences(own, st.text)
          /\ \A i \in 1..(Len(ms) - 1) : ms[i].score >= ms[i + 1].score
          /\ \A st \in Range(ms) :
                LET same == SelectSeq(ms, LAMBDA x : x.score = st.score)
                    from == SelectSeq(own, LAMBDA x : x.text \in Range(Texts(same)))
                IN  Texts(same) = Texts(from)
          /\ IF ms = <<>> THEN e.matches.score = 0
             ELSE /\ \E st \in Range(ms) : e.matches.score = st.score
                  /\ \A st \in Range(ms) : st.score <= e.matches.score

\* C16 witness: a MatchResult of two statements whose best statement was
\* retrieved second.
C16_Witness ==
  \E o \in Returned : \E j \in 1..Len(o.resume_matches) :
    \E e \in Range(EntriesOf(o.resume_matches[j])) :
      LET ms == e.matches.matched_statements
          own == OwnRetrieved(e.requirement, o.resume_matches[j].id)
      IN  /\ Len(ms) = 2
          /\ Len(own) = 2
          /\ ms[1].text = own[2].text
          /\ ms[2].text = own[1].text
          /\ ms[1].score > ms[2].score
          /\ e.matches.score = ms[1].score

\* the number of statements the first k skills account for
RECURSIVE SkillOffset(_, _)
SkillOffset(skills, k) ==
  IF k = 0 THEN 0 ELSE SkillOffset(skills, k - 1) + 1 + Len(skills[k].evidence)

\* the items of the flat lists, in the order education, certifications,
\* personality_traits, each with its type
FlatItems(s) ==
  [j \in 1..Len(s.education) |-> <<s.education[j], "education">>]
  \o [j \in 1..Len(s.certifications) |-> <<s.certifications[j], "certifications">>]
  \o [j \in 1..Len(s.personality_traits) |-> <<s.personality_traits[j], "personality_traits">>]

\* C17: prepare_statements emits, for each skill in order, one 'skill'
\* statement followed by one 'skill_evidence' statement per evidence item,
\* then one statement per education, certification and personality-trait
\* item, in this order; every statement carries the resume id given; a second
\* call on the same input returns the same list.
C17_PrepareStatementsOrder ==
  last_call.op = "prepare_statements" =>
    LET s == last_call.args.resume_statements
        id == last_call.args.resume_id
        r == last_call.ret
        n == Len(s.skills)
        flat == FlatItems(s)
    IN  /\ Len(r) = SkillOffset(s.skills, n) + Len(flat)
        /\ \A i \in 1..Len(r) : r[i].resume_id = id
        /\ \A k \in 1..n :
              LET at == SkillOffset(s.skills, k - 1) + 1
              IN  /\ r[at].type = "skill"
                  /\ \A j \in 1..Len(s.skills[k].evidence) :
                        /\ r[at + j].type = "skill_evidence"
                        /\ r[at + j].text = s.skills[k].name \o " - " \o s.skills[k].evidence[j]
        /\ \A j \in 1..Len(flat) :
              /\ r[SkillOffset(s.skills, n) + j].text = flat[j][1]
              /\ r[SkillOffset(s.skills, n) + j].type = flat[j][2]
        /\ r = prepare_statements(s, id)

\* C17 witness: a resume of two skills, the first with evidence, and an
\* education item was flattened.
C17_Witness ==
  /\ last_call.op = "prepare_statements"
  /\ Len(last_call.args.resume_statements.skills) = 2
  /\ Len(last_call.args.resume_statements.skills[1].evidence) = 2
  /\ Len(last_call.args.resume_statements.education) = 2
  /\ Len(last_call.args.resume_statements.personality_traits) = 1
  /\ last_call.ret[1].type = "skill"
  /\ last_call.ret[2].type = "skill_evidence"
  /\ last_call.ret[4].type = "skill"
  /\ last_call.ret[Len(last_call.ret)].type = "personality_traits"

\* C18: after initialize_vector_store(statements) without force_recreate the
\* active vector store holds exactly the statements passed in (count, order
\* and owners), in every run, whatever an earlier run left on disk.
C18_IndexIsOfThisCorpus ==
  (/\ last_call.op = "initialize_vector_store"
   /\ last_call.raised = None
   /\ ~last_call.args.force_recreate) =>
    /\ vector_db.metadata = Corpus(run.resumes)
    /\ Len(vector_db.index) = Len(Corpus(run.resumes))

(***************************************************************************)
(* The VectorDB interface when the process can be stopped during save:     *)
(* save writes the index file, then the metadata file (vector_db.py:53-57).*)
(***************************************************************************)
\* save stopped after faiss.write_index and before the metadata file is
\* opened: the index file is new, the metadata file is what it was
save_interrupted(files, db, path) ==
  [files EXCEPT ![path] = [index_file |-> File(db.index),
                           metadata_file |-> files[path].metadata_file]]

\* the process is stopped inside save (once in a behaviour); the next process
\* starts without an index
SaveInterrupted ==
  \E path \in Paths :
    /\ run.stage = "none"
    /\ dirname(path) # ""
    /\ disk' = save_interrupted(disk, vector_db, path)
    /\ vector_db' = EmptyDB
    /\ run' = [run EXCEPT !.stage = "restarted"]
    /\ last_call' = Call("save", [path |-> path], "Interrupted", None)
    /\ UNCHANGED <<saved, out>>

\* building, saving and loading an index, in processes that can be stopped
NextCrash == Add \/ Save \/ SaveInterrupted \/ Load

SpecCrash == InitVDB /\ [][NextCrash]_vars

\* C19: load raises whenever the persisted vector buffer and the persisted
\* payload list have different lengths; every index it returns has as many
\* vectors as payloads.
C19_LoadValidatesLengths ==
  last_call.op = "load" =>
    LET f == disk[last_call.args.path]
    IN  /\ (/\ f.index_file.exists
            /\ f.metadata_file.exists
            /\ Len(f.index_file.data) # Len(f.metadata_file.data)) =>
              last_call.raised # None
        /\ last_call.raised = None => Len(vector_db.index) = Len(vector_db.metadata)

NumTasks == 2

\* EmbeddingTask.max_retries
MaxRetries == 2

\* max_workers of the ThreadPoolExecutor
MaxWorkers == 2

Loops == {"requeue", "as_completed"}

TaskIds == 1..NumTasks

Requeued == "Requeued for retry"

Interrupted == "Interrupted by user"

NewTask == [retries |-> 0, max_retries |-> MaxRetries]

\* executor.submit(process_task, task): a pending future at the end of the queue
NewFuture(task, stop) ==
  [task |-> task, state |-> "pending", result |-> None,
   submitted_after_stop |-> stop, started_after_stop |-> FALSE, called |-> FALSE]

submit(r, task) ==
  [r EXCEPT !.futures = Append(@, NewFuture(task, r.stop_processing)),
            !.future_to_task = @ \cup {Len(r.futures) + 1}]

Futures == 1..Len(run.futures)

Finished(f) == run.futures[f].state \in {"finished", "cancelled"}

InWorker(f) == run.futures[f].state = "calling"

\* a faulty variant of the retry test: a failed task is always requeued
ShouldRequeue_always(task) == TRUE

\* if task.retries < task.max_retries
ShouldRequeue(task) == task.retries < task.max_retries

\* a faulty variant of the loop test: the loop never ends
LoopContinues_forever(future_to_task, stop) == TRUE

\* while future_to_task and not stop_processing
LoopContinues(future_to_task, stop) == future_to_task # {} /\ ~stop

InitBatch ==
  /\ vector_db = EmptyDB
  /\ saved = [p \in Paths |-> NotSaved]
  /\ last_call = Call("init", None, None, None)
  /\ disk = {}
  /\ out = [processed_count |-> 0, error_count |-> 0, retry_count |-> 0,
            summary |-> None]
  /\ run \in [loop : Loops, pc : {"submit"}, tasks : {[t \in TaskIds |-> NewTask]},
              futures : {<<>>}, future_to_task : {{}}, fs : {{}},
              done : {{}}, not_done : {{}}, stop_processing : {FALSE}]

\* signal_handler: runs in the main thread between any two of its steps
Signal ==
  /\ run.loop = "requeue"
  /\ run.pc # "done"
  /\ ~run.stop_processing
  /\ run' = [run EXCEPT !.stop_processing = TRUE]
  /\ last_call' = Call("signal_handler", None, None, None)
  /\ UNCHANGED <<vector_db, disk, saved, out>>

\* future_to_task = {executor.submit(process_task, task): task for task in tasks}
SubmitInitial ==
  /\ run.pc = "submit"
  /\ LET task == Len(run.futures) + 1
         r == submit(run, task)
     IN  run' = IF task < NumTasks THEN r
                ELSE [r EXCEPT !.pc = IF run.loop = "requeue" THEN "while"
                                        ELSE "as_completed",
                               !.fs = r.future_to_task]
  /\ last_call' = Call("submit", None, None, None)
  /\ UNCHANGED <<vector_db, disk, saved, out>>

WhileTest ==
  /\ run.pc = "while"
  /\ run' = [run EXCEPT !.pc = IF LoopContinues(run.future_to_task, run.stop_processing)
                                THEN "wait" ELSE "shutdown"]
  /\ last_call' = Call("while", None, None, None)
  /\ UNCHANGED <<vector_db, disk, saved, out>>

\* concurrent.futures.wait(future_to_task, timeout=1, return_when=FIRST_COMPLETED)
Wait ==
  /\ run.pc = "wait"
  /\ LET done == {f \in run.future_to_task : Finished(f)}
     IN  run' = [run EXCEPT !.done = done, !.not_done = run.future_to_task \ done,
                            !.pc = "for"]
  /\ last_call' = Call("wait", None, None, None)
  /\ UNCHANGED <<vector_db, disk, saved, out>>

\* one iteration of "for future in done", or the end of the for loop
ForDone ==
  /\ run.pc = "for"
  /\ IF run.done = {}
     THEN run' = [run EXCEPT !.pc = "check"]
     ELSE \E f \in run.done :
            LET popped == [run EXCEPT !.done = @ \ {f}, !.future_to_task = @ \ {f}]
            IN  run' = IF run.futures[f].result = Requeued
                       THEN submit(popped, run.futures[f].task)
                       ELSE popped
  /\ last_call' = Call("for", None, None, None)
  /\ UNCHANGED <<vector_db, disk, saved, out>>

\* if stop_processing: cancel the futures of not_done and break
CheckStop ==
  /\ run.pc = "check"
  /\ run' = IF run.stop_processing
            THEN [run EXCEPT !.pc = "shutdown",
                    !.futures = [f \in Futures |->
                       IF f \in run.not_done /\ run.futures[f].state = "pending"
                       THEN [run.futures[f] EXCEPT !.state = "cancelled"]
                       ELSE run.futures[f]]]
            ELSE [run EXCEPT !.pc = "while"]
  /\ last_call' = Call("check", None, None, None)
  /\ UNCHANGED <<vector_db, disk, saved, out>>

\* for future in as_completed(futures): the futures of the call's snapshot
AsCompleted ==
  /\ run.pc = "as_completed"
  /\ IF run.fs = {}
     THEN run' = [run EXCEPT !.pc = "shutdown"]
     ELSE \E f \in run.fs :
            /\ Finished(f)
            /\ LET taken == [run EXCEPT !.fs = @ \ {f}]
               IN  run' = IF run.futures[f].result = Requeued
                          THEN submit(taken, run.futures[f].task)
                          ELSE taken
  /\ last_call' = Call("as_completed", None, None, None)
  /\ UNCHANGED <<vector_db, disk, saved, out>>

\* leaving the with block waits for the workers; then the finally block logs
Shutdown ==
  /\ run.pc = "shutdown"
  /\ \A f \in Futures : Finished(f)
  /\ run' = [run EXCEPT !.pc = "done"]
  /\ out' = [out EXCEPT !.summary = [processed |-> out.processed_count,
                                     errors |-> out.error_count,
                                     retries |-> out.retry_count]]
  /\ last_call' = Call("finally", None, None, None)
  /\ UNCHANGED <<vector_db, disk, saved>>

\* a worker takes the head of the queue and enters process_task
StartTask ==
  \E f \in Futures :
    /\ run.futures[f].state = "pending"
    /\ \A g \in 1..(f - 1) : run.futures[g].state # "pending"
    /\ Cardinality({g \in Futures : InWorker(g)}) < MaxWorkers
    /\ run' = [run EXCEPT !.futures[f] =
                 IF run.loop = "requeue" /\ run.stop_processing
                 THEN [@ EXCEPT !.state = "finished", !.result = Interrupted,
                                !.started_after_stop = TRUE]
                 ELSE [@ EXCEPT !.state = "calling", !.called = TRUE,
                                !.started_after_stop = run.stop_processing]]
    /\ last_call' = Call("process_task", [future |-> f], None, None)
    /\ UNCHANGED <<vector_db, disk, saved, out>>

\* the provider call returns or raises; process_task counts under counter_lock
ProviderReturns ==
  \E f \in Futures, success \in BOOLEAN :
    LET task == run.futures[f].task IN
    /\ InWorker(f)
    /\ IF success
       THEN /\ disk' = disk \cup {task}
            /\ out' = [out EXCEPT !.processed_count = @ + 1]
            /\ run' = [run EXCEPT !.futures[f].state = "finished",
                                  !.futures[f].result = "ok"]
       ELSE /\ disk' = disk
            /\ IF ShouldRequeue(run.tasks[task])
               THEN /\ out' = [out EXCEPT !.retry_count = @ + 1]
                    /\ run' = [run EXCEPT !.tasks[task].retries = @ + 1,
                                          !.futures[f].state = "finished",
                                          !.futures[f].result = Requeued]
               ELSE /\ out' = [out EXCEPT !.error_count = @ + 1]
                    /\ run' = [run EXCEPT !.futures[f].state = "finished",
                                          !.futures[f].result = "error"]
    /\ last_call' = Call("process_file", [future |-> f], None, success)
    /\ UNCHANGED <<vector_db, saved>>

MainThread ==
  SubmitInitial \/ WhileTest \/ Wait \/ ForDone \/ CheckStop \/ AsCompleted \/ Shutdown

Worker == StartTask \/ ProviderReturns

NextBatch ==
  \/ SubmitInitial \/ WhileTest \/ Wait \/ ForDone \/ CheckStop \/ AsCompleted
  \/ Shutdown \/ StartTask \/ ProviderReturns \/ Signal

SpecBatch == InitBatch /\ [][NextBatch]_vars

\* the main thread keeps running and every worker that can step does
SpecBatchFair == SpecBatch /\ WF_vars(MainThread) /\ WF_vars(Worker)

(***************************************************************************)
(* Claims about the batch scripts.                                         *)
(***************************************************************************)
\* the futures of a task that a worker has taken
Executions(task) ==
  {f \in Futures : run.futures[f].task = task
                   /\ run.futures[f].state \in {"calling", "finished"}}

\* C21: once stop_processing is set, (a) no task is submitted or resubmitted
\* to the pool and no task that starts afterwards calls the provider, (b) a
\* task in flight runs to completion, (c) the outputs already written stay.
C21_CooperativeCancellation ==
  /\ [](\A f \in Futures :
          /\ ~run.futures[f].submitted_after_stop
          /\ (run.futures[f].started_after_stop => ~run.futures[f].called))
  /\ [][/\ \A f \in Futures :
             InWorker(f) => run'.futures[f].state \in {"calling", "finished"}
        /\ (run'.pc = "done" => \A f \in Futures : ~InWorker(f))
        /\ disk \subseteq disk']_vars

\* C23: when a run ends without a stop signal, every task has been counted
\* once in the summary, as processed or as an error.
C23_EveryTaskCounted ==
  (run.pc = "done" /\ ~run.stop_processing)
    => out.summary.processed + out.summary.errors = NumTasks

\* C24: task.retries never exceeds max_retries, the pool executes a task at
\* most max_retries + 1 times, and a task is never in two workers at once.
C24_RetriesBounded ==
  \A task \in TaskIds :
    /\ run.tasks[task].retries <= run.tasks[task].max_retries
    /\ Cardinality(Executions(task)) <= run.tasks[task].max_retries + 1
    /\ Cardinality({f \in Executions(task) : InWorker(f)}) <= 1

\* C24 witness: a task failed on its last allowed retry while the other task
\* was in a worker.
C24_Witness ==
  /\ run.loop = "requeue"
  /\ \E task \in TaskIds :
       /\ run.tasks[task].retries = MaxRetries
       /\ Cardinality(Executions(task)) = MaxRetries + 1
       /\ \A f \in Executions(task) : run.futures[f].result \in {Requeued, "error"}
       /\ \E other \in TaskIds \ {task} : \E g \in Executions(other) : InWorker(g)

\* a task succeeded, or failed after its last allowed retry
TaskFinal(task) ==
  \E f \in Futures : run.futures[f].task = task /\ run.futures[f].result \in {"ok", "error"}

RequeueLoopEnded ==
  /\ run.pc = "done"
  /\ run.future_to_task = {}
  /\ \A task \in TaskIds : TaskFinal(task)

NumPairs == 5

\* batch_size
LabelBatchSize == 2

\* the runs of the script in one behaviour
MaxRuns == 3

PairIndices == 0..(NumPairs - 1)

SetMax(S) == CHOOSE m \in S : \A x \in S : x <= m

\* start_index = max(indices) + 1 over the files found, 0 when there is none
StartIndex(files) == IF files = {} THEN 0 ELSE SetMax(files) + 1

\* batches = [pairs[i:i + batch_size] for i in range(0, len(pairs), batch_size)],
\* each with the index its first pair is saved under
Batches(start_index) ==
  LET remaining == NumPairs - start_index
      count == (remaining + LabelBatchSize - 1) \div LabelBatchSize
  IN  [idx \in 1..count |->
         LET first == start_index + (idx - 1) * LabelBatchSize
         IN  [first |-> first, len |-> Min(LabelBatchSize, NumPairs - first),
              state |-> "pending"]]

BatchPairs(batch) == batch.first..(batch.first + batch.len - 1)

InitLabel ==
  /\ vector_db = EmptyDB
  /\ saved = [p \in Paths |-> NotSaved]
  /\ last_call = Call("init", None, None, None)
  /\ disk = {}
  /\ out = [failed_pairs |-> {}]
  /\ run = [pc |-> "start", number |-> 1, start_index |-> 0, had |-> {},
            todo |-> {}, batches |-> <<>>]

\* main up to the submission of the batches
LabelerStart ==
  /\ run.pc = "start"
  /\ LET start_index == StartIndex(disk)
         batches == IF start_index >= NumPairs THEN <<>> ELSE Batches(start_index)
     IN  run' = [run EXCEPT !.start_index = start_index, !.had = disk,
                   !.todo = UNION {BatchPairs(batches[b]) : b \in 1..Len(batches)},
                   !.batches = batches,
                   !.pc = IF batches = <<>> THEN "done" ELSE "batches"]
  /\ out' = [failed_pairs |-> {}]
  /\ last_call' = Call("main", None, None, None)
  /\ UNCHANGED <<vector_db, disk, saved>>

\* process_batch returns, or raises after it saved the first pairs of the
\* batch (none when label_pairs_batch raised); main records the whole batch
BatchReturns ==
  \E b \in 1..Len(run.batches), written \in 0..LabelBatchSize :
    LET batch == run.batches[b] IN
    /\ run.pc = "batches"
    /\ batch.state = "pending"
    /\ written <= batch.len
    /\ disk' = disk \cup (batch.first..(batch.first + written - 1))
    /\ run' = [run EXCEPT !.batches[b].state =
                 IF written = batch.len THEN "ok" ELSE "failed"]
    /\ out' = IF written = batch.len THEN out
              ELSE [out EXCEPT !.failed_pairs = @ \cup BatchPairs(batch)]
    /\ last_call' = Call("process_batch", [start_idx |-> batch.first],
                         IF written = batch.len THEN None ELSE "Exception", None)
    /\ UNCHANGED <<vector_db, saved>>

\* every batch is done: failed_pairs.json is written and main returns
LabelerEnd ==
  /\ run.pc = "batches"
  /\ \A b \in 1..Len(run.batches) : run.batches[b].state # "pending"
  /\ run' = [run EXCEPT !.pc = "done"]
  /\ last_call' = Call("return", None, None, None)
  /\ UNCHANGED <<vector_db, disk, saved, out>>

\* the process is stopped while batches are pending
LabelerCancelled ==
  /\ run.pc = "batches"
  /\ \E b \in 1..Len(run.batches) : run.batches[b].state = "pending"
  /\ run' = [run EXCEPT !.pc = "done"]
  /\ last_call' = Call("return", None, "KeyboardInterrupt", None)
  /\ UNCHANGED <<vector_db, disk, saved, out>>

\* the script is run again over the same input file and output directory
LabelerRerun ==
  /\ run.pc = "done"
  /\ run.number < MaxRuns
  /\ run' = [run EXCEPT !.pc = "start", !.number = @ + 1]
  /\ last_call' = Call("init", None, None, None)
  /\ UNCHANGED <<vector_db, disk, saved, out>>

NextLabel ==
  LabelerStart \/ BatchReturns \/ LabelerEnd \/ LabelerCancelled \/ LabelerRerun

SpecLabel == InitLabel /\ [][NextLabel]_vars

\* C22: a rerun labels every input pair that has no saved file and no pair
\* that has one, whatever the order in which the batches of the earlier run
\* completed or failed.
C22_RerunLabelsUnlabelledOnly ==
  (run.number > 1 /\ run.pc # "start") => run.todo = PairIndices \ run.had

(***************************************************************************)
(* Claims about the reranking loop and the statement counts.               *)
(***************************************************************************)
\* the (requirement, statement) pairs of a batch_find_all_matching_statements call
PairsOfCall(a) ==
  PairsFrom(a.db, a.requirements,
            AllIndices(a.db, a.config.top_k_statements, a.requirements), 1)

\* the matched statements of the whole result, counted with repetitions
RECURSIVE CountMatched(_, _)
CountMatched(ret, keys) ==
  IF keys = {} THEN 0
  ELSE LET key == CHOOSE x \in keys : TRUE
       IN  Len(ret[key[1]][key[2]].matched_statements) + CountMatched(ret, keys \ {key})

ResultKeys(ret) == {<<text, id>> \in (DOMAIN ret) \X {ResumeA.id, ResumeB.id} :
                      id \in DOMAIN ret[text]}

\* C26: for every batch_size >= 1 the cross-encoder loop gives one score per
\* retrieved pair, and the score attached to a statement of the result is
\* the normalized reranker score of its own (requirement, statement) pair.
C26_BatchingKeepsScores ==
  (last_call.op = "batch_find_all_matching_statements" /\ last_call.raised = None) =>
    LET a == last_call.args
        all_pairs == PairsOfCall(a)
        all_scores == BatchScores(all_pairs, a.config.batch_size, 0, TRUE)
    IN  /\ Len(all_scores) = Len(all_pairs)
        /\ \A j \in 1..Len(all_pairs) :
             all_scores[j] = normalize_score(ModelScore(all_pairs[j].req_text,
                                                        all_pairs[j].stmt.text))
        /\ CountMatched(last_call.ret, ResultKeys(last_call.ret)) = Len(all_pairs)
        /\ \A key \in ResultKeys(last_call.ret) :
             LET ms == last_call.ret[key[1]][key[2]].matched_statements
             IN  \A k \in 1..Len(ms) :
                   ms[k].score = normalize_score(ModelScore(key[1], ms[k].text))

\* C26 witness: three pairs scored in batches of two (the last batch holds
\* one pair), with different scores among the statements of one requirement.
C26_Witness ==
  /\ last_call.op = "batch_find_all_matching_statements"
  /\ last_call.raised = None
  /\ last_call.args.config.batch_size = 2
  /\ Len(PairsOfCall(last_call.args)) = 3
  /\ \E key \in ResultKeys(last_call.ret) :
       LET ms == last_call.ret[key[1]][key[2]].matched_statements
       IN  Len(ms) = 2 /\ ms[1].score > ms[2].score

\* C27: get_total_statements(resume) is the number of statements
\* prepare_statements emits for the resume.
C27_TotalIsPreparedCount ==
  last_call.op = "prepare_statements" =>
    get_total_statements(last_call.args.resume_statements) = Len(last_call.ret)

\* C27 witness: a resume with two skills, three evidence items in all, two
\* education statements, a certification and a trait: nine statements.
C27_Witness ==
  /\ last_call.op = "prepare_statements"
  /\ Len(last_call.args.resume_statements.skills) = 2
  /\ Len(last_call.args.resume_statements.education) = 2
  /\ Len(last_call.args.resume_statements.certifications) = 1
  /\ Len(last_call.args.resume_statements.personality_traits) = 1
  /\ Len(last_call.ret) = 9
  /\ get_total_statements(last_call.args.resume_statements) = 9

\* C28: for a job description with no must-have requirement every resume
\* has must-have coverage 0 and score 0, and the ranking is empty, whatever
\* its nice-to-have matches are.
C28_NoMustHaveEmptyRanking ==
  \A o \in Returned :
    run.job_description.must_have_requirements = <<>> =>
      /\ \A j \in 1..Len(o.resume_scores) :
           /\ o.resume_scores[j].score = RZero
           /\ o.resume_scores[j].must_have_coverage = RZero
      /\ o.ranked = <<>>

\* C28 witness: no must-have requirement, a nice-to-have requirement matched
\* at 0.9, and an empty ranking.
C28_Witness ==
  /\ run.job_description.must_have_requirements = <<>>
  /\ out.match_new.done
  /\ Len(out.match_new.resume_matches) = 1
  /\ Len(out.match_new.resume_matches[1].nice_to_have) = 1
  /\ out.match_new.resume_matches[1].nice_to_have[1].matches.score = 900
  /\ Len(out.match_new.resume_scores) = 1
  /\ out.match_new.ranked = <<>>

\* C29: a resume whose must-have coverage is at least 0.3 has a strictly
\* positive aggregated score and is in the ranked list, whatever its
\* normalized match scores are, those below the threshold included.
C29_GatePassedIsRanked ==
  \A o \in Returned : \A j \in 1..Len(o.resume_matches) :
    ~BelowGate(o.resume_matches[j]) =>
      /\ RLess(RZero, o.resume_scores[j].score)
      /\ \E k \in 1..Len(o.ranked) : o.ranked[k].id = o.resume_matches[j].id

\* the score and coverages Matcher.match_new reports for the resume
ScoresOf(o, resume_id) ==
  o.resume_scores[CHOOSE j \in 1..Len(o.resume_scores) : o.resume_scores[j].id = resume_id]

\* Matcher.match_new over an index that holds the statements of one resume
MatchedAlone(resume) ==
  match_new(FreshStore(<<resume>>), run.config, run.job_description, <<resume>>)

\* C30: in Matcher.match_new the score and coverages of a resume are those
\* it gets when the index holds its own statements only: the statements of
\* the other resumes of the index do not change them, for every
\* top_k_statements.
C30_CandidateIndependence ==
  (/\ out.match_new.done
   /\ out.match_new.raised = None
   /\ vector_db = FreshStore(run.resumes)) =>
    \A j \in 1..Len(run.resumes) :
      MatchedAlone(run.resumes[j]).raised = None =>
        ScoresOf(out.match_new, run.resumes[j].id)
          = ScoresOf(MatchedAlone(run.resumes[j]), run.resumes[j].id)

====
